---- MODULE Spec2Model ----
(***************************************************************************)
(* Filemaid (filemaid.py): the rule-matching and action-application engine *)
(* run by main() over the candidates of find_paths().                      *)
(*                                                                         *)
(* A path string is a sequence of tokens: the separator "/", the home      *)
(* marker "~" and entry names.  "/w/d/" is <<"/","w","/","d","/">>, "d" is *)
(* <<"d">>.  Two path strings are the same string iff the sequences are    *)
(* equal, which is what `path not in ignore_paths` compares.  The file     *)
(* system maps canonical paths (sequences of names from "/") to entries.   *)
(***************************************************************************)
EXTENDS Integers, Sequences, FiniteSets, TLC

Sep == "/"
Tilde == "~"
\* None, as returned by CopyAction.apply / DeleteAction.apply; falsy like ''
None == <<>>

\* the process's working directory /w and $HOME = /h
Cwd == <<"w">>
HomeDir == <<"h">>

Last(s) == s[Len(s)]
Front(s) == SubSeq(s, 1, Len(s) - 1)
IsPrefix(a, b) == Len(a) <= Len(b) /\ SubSeq(b, 1, Len(a)) = a

\* ------------------------------------------------------------------ os.path
isabs(p) == Len(p) > 0 /\ p[1] = Sep

\* posixpath.join(a, b)
join(a, b) ==
    IF isabs(b) THEN b
    ELSE IF a = <<>> \/ Last(a) = Sep THEN a \o b
    ELSE a \o <<Sep>> \o b

\* the names of a path string, separators dropped
Comps(p) == SelectSeq(p, LAMBDA t : t # Sep)

\* the string "/c1/c2/..." of a canonical path
RECURSIVE StrOf(_)
StrOf(c) ==
    IF c = <<>> THEN <<Sep>>
    ELSE IF Len(c) = 1 THEN <<Sep, c[1]>>
    ELSE StrOf(Front(c)) \o <<Sep, Last(c)>>

\* the canonical path the kernel resolves a path string to
Resolve(p) == (IF isabs(p) THEN <<>> ELSE Cwd) \o Comps(p)

\* os.path.abspath(p) = normpath(join(getcwd(), p))
abspath(p) == StrOf(Resolve(p))

\* os.path.expanduser(p): a leading "~" component becomes $HOME
expanduser(p) ==
    IF Len(p) > 0 /\ p[1] = Tilde /\ (Len(p) = 1 \/ p[2] = Sep)
    THEN StrOf(HomeDir) \o SubSeq(p, 2, Len(p))
    ELSE p

\* os.path.basename(p): what follows the last separator (may be empty)
basename(p) ==
    IF p = <<>> \/ Last(p) = Sep THEN <<>>
    ELSE <<Last(p)>>

\* shutil._basename(p): basename after stripping trailing separators
RECURSIVE rstrip(_)
rstrip(p) == IF p # <<>> /\ Last(p) = Sep THEN rstrip(Front(p)) ELSE p
shutil_basename(p) == basename(rstrip(p))

\* ------------------------------------------------------------ file system
\* An entry holds its kind, the MIME type sniffed from its content, its
\* st_size and its age in seconds (now - st_mtime; the clock is taken not
\* to advance over the runs modelled).
DirEntry == [kind |-> "dir", mime |-> <<>>, size |-> 4096, age |-> 0]
FileEntry(m, n, t) == [kind |-> "file", mime |-> m, size |-> n, age |-> t]

\* "dir", "file" or "none": what os.stat finds at a path string p that
\* resolves to the canonical path c
StatAt(fs, p, c) ==
    IF c = <<>> THEN "dir"
    ELSE IF c \notin DOMAIN fs THEN "none"
    ELSE IF fs[c].kind = "file" /\ p # <<>> /\ Last(p) = Sep THEN "none"
    ELSE fs[c].kind

Stat(fs, p) == StatAt(fs, p, Resolve(p))

isdir(fs, p) == Stat(fs, p) = "dir"
isfile(fs, p) == Stat(fs, p) = "file"
exists(fs, p) == Stat(fs, p) # "none"

Prefixes(c) == {SubSeq(c, 1, n) : n \in 1..Len(c)}

\* what a file-system call gives: the new tree, its result, its exception
Result(fs, ret, err) == [fs |-> fs, ret |-> ret, err |-> err]

\* os.makedirs(p, exist_ok=True), p resolving to c
makedirs_at(fs, c) ==
    IF \E a \in Prefixes(c) : a \in DOMAIN fs /\ fs[a].kind = "file"
    THEN Result(fs, None,
                IF c \in DOMAIN fs THEN "FileExistsError" ELSE "NotADirectoryError")
    ELSE Result([a \in DOMAIN fs \cup Prefixes(c) |->
                    IF a \in DOMAIN fs THEN fs[a] ELSE DirEntry], None, "")

makedirs(fs, p) == makedirs_at(fs, Resolve(p))

\* os.rename of the subtree at canonical s to canonical d (d absent)
RenameTree(fs, s, d) ==
    LET moved == {a \in DOMAIN fs : IsPrefix(s, a)}
        to(a) == d \o SubSeq(a, Len(s) + 1, Len(a))
        kept == DOMAIN fs \ moved
    IN  [b \in kept \cup {to(a) : a \in moved} |->
            IF b \in kept THEN fs[b]
            ELSE fs[CHOOSE a \in moved : to(a) = b]]

\* shutil.move into the directory at d: src resolves to s and is of kind k,
\* real_dst resolves to r
move_to(fs, s, k, d, real_dst, r) ==
    IF k # "none" /\ s = d THEN Result(fs, None, "")
    ELSE IF r \in DOMAIN fs THEN Result(fs, None, "shutil.Error")
    ELSE IF k = "none" THEN Result(fs, None, "FileNotFoundError")
    ELSE IF k = "dir" /\ IsPrefix(s, r) THEN Result(fs, None, "shutil.Error")
    ELSE Result(RenameTree(fs, s, r), real_dst, "")

move_into(fs, src, dst, real_dst) ==
    move_to(fs, Resolve(src), Stat(fs, src), Resolve(dst), real_dst, Resolve(real_dst))

\* shutil.move(src, dst), dst a directory (os.makedirs has just returned)
shutil_move(fs, src, dst) == move_into(fs, src, dst, join(dst, shutil_basename(src)))

\* shutil.copy2 into a directory: src resolves to s and is of kind k,
\* real_dst resolves to r and is of kind kr
copy_to(fs, s, k, real_dst, r, kr) ==
    IF k = "none" THEN Result(fs, None, "FileNotFoundError")
    ELSE IF kr # "none" /\ s = r THEN Result(fs, None, "SameFileError")
    ELSE IF k = "dir" \/ kr = "dir" THEN Result(fs, None, "IsADirectoryError")
    ELSE Result([a \in DOMAIN fs \cup {r} |-> IF a = r THEN fs[s] ELSE fs[a]],
                real_dst, "")

copy_into(fs, src, real_dst) ==
    copy_to(fs, Resolve(src), Stat(fs, src), real_dst, Resolve(real_dst),
            Stat(fs, real_dst))

\* shutil.copy2(src, dst), dst a directory (os.makedirs has just returned)
shutil_copy2(fs, src, dst) == copy_into(fs, src, join(dst, basename(src)))

\* os.remove(p), p resolving to c and of kind k
remove_at(fs, c, k) ==
    IF k = "none" THEN Result(fs, None, "FileNotFoundError")
    ELSE IF k = "dir" THEN Result(fs, None, "IsADirectoryError")
    ELSE Result([a \in DOMAIN fs \ {c} |-> fs[a]], None, "")

os_remove(fs, p) == remove_at(fs, Resolve(p), Stat(fs, p))

\* ------------------------------------------------------------- conditions
\* A condition declaration, and the condition built from it, is a node
\* [tag, arg, num, kids]: arg holds a leaf's pattern or comparator and
\* unit, num a Size leaf's magnitude, kids the children of all/any/not.
\* Building adds id, the object's identity (its position in the rule set).
CONDITIONS == {"all", "any", "not", "path", "mime", "age", "size"}
\* ACTIONS (a reserved word here)
ACTION_TAGS == {"move", "copy", "delete"}

\* SizeCondition.UNITS
UNITS ==
    [b |-> 1, kb |-> 1024, mb |-> 1024 * 1024, kib |-> 1000, mib |-> 1000 * 1000]

\* the seconds of timedelta(**{unit: 1}), AgeCondition.parse_age_condition
AGE_UNITS ==
    [seconds |-> 1, minutes |-> 60, hours |-> 3600, days |-> 86400, weeks |-> 604800]

\* AgeCondition.COMPARATORS / SizeCondition.COMPARATORS
compare(op, a, b) ==
    CASE op = ">" -> a > b
      [] op = ">=" -> a >= b
      [] op = "=" -> a = b
      [] op = "<=" -> a <= b
      [] op = "<" -> a < b

NoCondition == [tag |-> "", arg |-> <<>>, num |-> 0, kids |-> <<>>, id |-> <<>>]

RECURSIVE make_condition(_, _)
RECURSIVE make_children(_, _, _)

\* BaseTermCondition.__init__ / NotCondition.__init__: the children are
\* built in order, from child i on; the first failure propagates
make_children(data, id, i) ==
    IF i > Len(data) THEN [err |-> "", kids |-> <<>>]
    ELSE LET k == make_condition(data[i], id \o <<i>>) IN
         IF k.err # "" THEN [err |-> k.err, kids |-> <<>>]
         ELSE LET rest == make_children(data, id, i + 1) IN
              [err |-> rest.err, kids |-> <<k.cond>> \o rest.kids]

\* a make_condition that looks the tags up only when matching
RECURSIVE make_condition_lazy(_, _)
make_condition_lazy(data, id) ==
    [err |-> "",
     cond |-> [tag |-> data.tag, arg |-> data.arg, num |-> data.num,
               kids |-> [i \in 1..Len(data.kids) |->
                            make_condition_lazy(data.kids[i], id \o <<i>>).cond],
               id |-> id]]

\* make_condition(data); id is the identity the new object gets
make_condition(data, id) ==
    IF data.tag \notin CONDITIONS
    THEN [err |-> "ConditionError", cond |-> NoCondition]
    ELSE IF data.tag = "not" /\ Len(data.kids) # 1
    THEN [err |-> "TypeError", cond |-> NoCondition]
    ELSE IF data.tag = "size" /\ data.arg[2] \notin DOMAIN UNITS
    THEN [err |-> "KeyError", cond |-> NoCondition]
    ELSE IF data.tag = "age" /\ data.arg[2] \notin DOMAIN AGE_UNITS
    THEN [err |-> "TypeError", cond |-> NoCondition]
    ELSE LET ks == make_children(data.kids, id, 1) IN
         IF ks.err # "" THEN [err |-> ks.err, cond |-> NoCondition]
         ELSE [err |-> "",
               cond |-> [tag |-> data.tag, arg |-> data.arg, num |-> data.num,
                         kids |-> ks.kids, id |-> id]]

\* one leaf invocation, as recorded in the trace of a match
Call(c, v, read, raised) ==
    [id |-> c.id, tag |-> c.tag, val |-> v, read |-> read, raised |-> raised]

\* PathCondition.match: the pattern matches at index 0 of the path string
path_match(c, path) == IsPrefix(c.arg, path)

\* a MimeCondition.match without the lru_cache
mime_match_uncached(c, path, fs, cache) ==
    [val |-> isfile(fs, path) /\ IsPrefix(c.arg, fs[Resolve(path)].mime),
     read |-> isfile(fs, path),
     cache |-> (<<c.id, path>> :> (isfile(fs, path) /\ IsPrefix(c.arg, fs[Resolve(path)].mime)))
               @@ cache]

\* MimeCondition.match behind functools.lru_cache(None): keyed by
\* (self, path), never evicted.  [val, read, cache]
mime_match(c, path, fs, cache) ==
    LET key == <<c.id, path>> IN
    IF key \in DOMAIN cache
    THEN [val |-> cache[key], read |-> FALSE, cache |-> cache]
    ELSE LET v == IF ~isfile(fs, path) THEN FALSE
                  ELSE IsPrefix(c.arg, fs[Resolve(path)].mime)
         IN [val |-> v, read |-> isfile(fs, path), cache |-> (key :> v) @@ cache]

\* SizeCondition.match: os.stat raises for a missing path
size_match(c, path, fs) ==
    IF ~exists(fs, path) THEN [val |-> FALSE, err |-> "FileNotFoundError"]
    ELSE [val |-> compare(c.arg[1], fs[Resolve(path)].size, UNITS[c.arg[2]] * c.num),
          err |-> ""]

\* AgeCondition.match: os.stat raises for a missing path
age_match(c, path, fs) ==
    IF ~exists(fs, path) THEN [val |-> FALSE, err |-> "FileNotFoundError"]
    ELSE [val |-> compare(c.arg[1], fs[Resolve(path)].age, AGE_UNITS[c.arg[2]] * c.num),
          err |-> ""]

RECURSIVE match(_, _, _, _, _)
RECURSIVE all_match(_, _, _, _, _, _)
RECURSIVE any_match(_, _, _, _, _, _)

\* an AllCondition.match over a list: every child is matched
RECURSIVE all_match_eager(_, _, _, _, _, _)
all_match_eager(kids, i, path, fs, cache, calls) ==
    IF i > Len(kids)
    THEN [val |-> TRUE, err |-> "", cache |-> cache, calls |-> calls]
    ELSE LET r == match(kids[i], path, fs, cache, calls) IN
         IF r.err # "" THEN r
         ELSE LET rest == all_match_eager(kids, i + 1, path, fs, r.cache, r.calls) IN
              IF rest.err # "" THEN rest ELSE [rest EXCEPT !.val = r.val /\ rest.val]

\* AllCondition.match: all(...) over the generator stops at the first
\* child that returns false
all_match(kids, i, path, fs, cache, calls) ==
    IF i > Len(kids)
    THEN [val |-> TRUE, err |-> "", cache |-> cache, calls |-> calls]
    ELSE LET r == match(kids[i], path, fs, cache, calls) IN
         IF r.err # "" \/ ~r.val THEN r
         ELSE all_match(kids, i + 1, path, fs, r.cache, r.calls)

\* AnyCondition.match: any(...) stops at the first child that returns true
any_match(kids, i, path, fs, cache, calls) ==
    IF i > Len(kids)
    THEN [val |-> FALSE, err |-> "", cache |-> cache, calls |-> calls]
    ELSE LET r == match(kids[i], path, fs, cache, calls) IN
         IF r.err # "" \/ r.val THEN r
         ELSE any_match(kids, i + 1, path, fs, r.cache, r.calls)

\* condition.match(path): [val, err, cache, calls]
match(c, path, fs, cache, calls) ==
    CASE c.tag = "all" -> all_match(c.kids, 1, path, fs, cache, calls)
      [] c.tag = "any" -> any_match(c.kids, 1, path, fs, cache, calls)
      [] c.tag = "not" ->
            LET r == match(c.kids[1], path, fs, cache, calls) IN
            [r EXCEPT !.val = (r.err = "" /\ ~r.val)]
      [] c.tag = "path" ->
            LET v == path_match(c, path) IN
            [val |-> v, err |-> "", cache |-> cache,
             calls |-> Append(calls, Call(c, v, FALSE, FALSE))]
      [] c.tag = "mime" ->
            LET m == mime_match(c, path, fs, cache) IN
            [val |-> m.val, err |-> "", cache |-> m.cache,
             calls |-> Append(calls, Call(c, m.val, m.read, FALSE))]
      [] c.tag = "size" ->
            LET s == size_match(c, path, fs) IN
            [val |-> s.val, err |-> s.err, cache |-> cache,
             calls |-> Append(calls, Call(c, s.val, TRUE, s.err # ""))]
      [] c.tag = "age" ->
            LET s == age_match(c, path, fs) IN
            [val |-> s.val, err |-> s.err, cache |-> cache,
             calls |-> Append(calls, Call(c, s.val, TRUE, s.err # ""))]
      [] OTHER ->
            [val |-> FALSE, err |-> "ConditionError", cache |-> cache, calls |-> calls]

\* ---------------------------------------------------------------- actions
\* An action declaration is [tag, dest]; the action built from it holds the
\* expanded destination.
NoAction == [tag |-> "", destination |-> <<>>]

\* MoveAction.__init__ / CopyAction.__init__ / BaseAction.__init__
make_action(datum) ==
    IF datum.tag \notin ACTION_TAGS THEN [err |-> "ActionError", action |-> NoAction]
    ELSE [err |-> "",
          action |-> [tag |-> datum.tag,
                      destination |-> IF datum.tag = "delete" THEN <<>>
                                      ELSE expanduser(datum.dest)]]

\* make_actions(data): the actions from declaration i on
RECURSIVE make_actions(_, _)
make_actions(data, i) ==
    IF i > Len(data) THEN [err |-> "", actions |-> <<>>]
    ELSE LET a == make_action(data[i]) IN
         IF a.err # "" THEN [err |-> a.err, actions |-> <<>>]
         ELSE LET rest == make_actions(data, i + 1) IN
              [err |-> rest.err, actions |-> <<a.action>> \o rest.actions]

\* action.ignore_paths
action_ignore_paths(a) == IF a.tag \in {"move", "copy"} THEN {a.destination} ELSE {}

\* what an action's apply gives: [fs, ret, err, out]; ret is what apply
\* returns (the new path if keep), out where shutil put the entry
Returning(r, keep) ==
    [fs |-> r.fs, ret |-> IF keep THEN r.ret ELSE None, err |-> r.err, out |-> r.ret]

\* MoveAction.apply / CopyAction.apply once os.makedirs has given m
apply_after_makedirs(a, m, path) ==
    IF m.err # "" THEN Returning(m, FALSE)
    ELSE IF a.tag = "move" THEN Returning(shutil_move(m.fs, path, a.destination), TRUE)
    ELSE Returning(shutil_copy2(m.fs, path, a.destination), FALSE)

\* MoveAction.apply / CopyAction.apply / DeleteAction.apply
action_apply(a, fs, path) ==
    IF a.tag = "delete" THEN Returning(os_remove(fs, path), FALSE)
    ELSE apply_after_makedirs(a, makedirs(fs, a.destination), path)

\* ------------------------------------------------------------------ rules
NoRule == [name |-> "", condition |-> NoCondition, actions |-> <<>>, ignore_paths |-> {}]

\* make_rule(data) and Rule.__init__; n is the rule's position
make_rule(data, n) ==
    LET c == make_condition(data.condition, <<n>>) IN
    IF c.err # "" THEN [err |-> c.err, rule |-> NoRule]
    ELSE LET a == make_actions(data.actions, 1) IN
         IF a.err # "" THEN [err |-> a.err, rule |-> NoRule]
         ELSE [err |-> "",
               rule |-> [name |-> data.name, condition |-> c.cond,
                         actions |-> a.actions,
                         ignore_paths |->
                            UNION {action_ignore_paths(a.actions[i]) :
                                       i \in 1..Len(a.actions)}]]

\* load_rules(path): every rule is built, in order, before anything else
RECURSIVE load_rules(_, _)
load_rules(config, n) ==
    IF n > Len(config) THEN [err |-> "", rules |-> <<>>]
    ELSE LET r == make_rule(config[n], n) IN
         IF r.err # "" THEN [err |-> r.err, rules |-> <<>>]
         ELSE LET rest == load_rules(config, n + 1) IN
              [err |-> rest.err,
               rules |-> IF rest.err # "" THEN <<>> ELSE <<r.rule>> \o rest.rules]

\* a Rule.apply that hands every action the original path
keep_path(ret, path) == path

\* Rule.apply, line 58: `action.apply(path) or path`
or_path(ret, path) == IF ret # None THEN ret ELSE path

Step(action, path, r) ==
    [tag |-> action.tag, input |-> path, ret |-> r.ret, err |-> r.err, out |-> r.out]

\* Rule.apply(path), from action i on: [fs, path, err, steps]; steps
\* records each action's input and result
RECURSIVE rule_apply(_, _, _, _, _)
RECURSIVE rule_apply_next(_, _, _, _, _)
rule_apply_next(actions, i, path, steps, r) ==
    IF r.err # ""
    THEN [fs |-> r.fs, path |-> path, err |-> r.err,
          steps |-> Append(steps, Step(actions[i], path, r))]
    ELSE rule_apply(actions, i + 1, r.fs, or_path(r.ret, path),
                    Append(steps, Step(actions[i], path, r)))

rule_apply(actions, i, fs, path, steps) ==
    IF i > Len(actions) THEN [fs |-> fs, path |-> path, err |-> "", steps |-> steps]
    ELSE rule_apply_next(actions, i, path, steps, action_apply(actions[i], fs, path))

\* ------------------------------------------------------------------ inputs
MaxRules == 2
MaxRuns == 2

Image == <<"image", "png">>
Text == <<"text", "plain">>

D(c) == c :> DirEntry
F(c, m, n, t) == c :> FileEntry(m, n, t)
Days(n) == n * AGE_UNITS["days"]
Base == D(<<"w">>) @@ D(<<"h">>) @@ D(<<"w", "d">>)

\* the trees the target root /w/d is scanned in
Layouts ==
    { Base @@ F(<<"w", "d", "f">>, Image, 2048, Days(40)) @@ D(<<"w", "d", "o">>),
      Base @@ F(<<"w", "d", "f">>, Text, 100, Days(1)) @@ D(<<"w", "d", "s">>)
           @@ F(<<"w", "d", "s", "g">>, Image, 2048, Days(40)),
      Base @@ F(<<"w", "d", "d">>, Image, 2048, Days(2)) }

\* the forms of the path argument
RootArgs ==
    { <<Sep, "w", Sep, "d">>, <<"d">>, <<Sep, "w", Sep, "d", Sep>>, <<Sep, "w", Sep, "x">> }

Leaf(tag, arg, num) == [tag |-> tag, arg |-> arg, num |-> num, kids |-> <<>>]
Term(tag, kids) == [tag |-> tag, arg |-> <<>>, num |-> 0, kids |-> kids]
Act(tag, dest) == [tag |-> tag, dest |-> dest]

IsImage == Leaf("mime", <<"image">>, 0)
Big == Leaf("size", <<">", "kb">>, 1)
Stale == Leaf("age", <<">", "days">>, 30)
UnderD == Leaf("path", <<"d", Sep>>, 0)
Bogus == Leaf("bogus", <<>>, 0)
Always == Term("all", <<>>)
Never == Term("any", <<>>)

Rule(condition, actions) == [name |-> "r", condition |-> condition, actions |-> actions]

\* the rule declarations a configuration is drawn from
RulePool ==
    { Rule(IsImage, <<Act("move", <<Sep, "w", Sep, "d", Sep, "o">>)>>),
      Rule(Always, <<Act("move", <<Tilde, Sep, "p">>), Act("delete", <<>>)>>),
      Rule(Term("all", <<Term("not", <<Never>>), IsImage, Big>>),
           <<Act("copy", <<"d", Sep, "o", Sep>>)>>),
      Rule(Term("any", <<Term("all", <<Always, UnderD>>), Big>>),
           <<Act("move", <<Sep, "w", Sep, "d", Sep, "o">>)>>),
      Rule(Term("all", <<Term("not", <<IsImage>>), Term("any", <<Big, Bogus>>)>>),
           <<Act("delete", <<>>)>>),
      Rule(Stale, <<Act("delete", <<>>)>>),
      Rule(Always, <<Act("delete", <<>>), Act("shred", <<>>)>>) }

Configs == UNION { [1..n -> RulePool] : n \in 1..MaxRules }

\* ------------------------------------------------------------------- state
VARIABLES
    fs,            \* the file system
    args,          \* arguments: path, dry_run, recursive
    config,        \* the parsed rule declarations
    pc,            \* "start", "walk", "yield", "match", "done", "failed", "exit"
    err,           \* the exception that ended the run, or the exit message
    rules,         \* main's rules
    ignore_paths,  \* main's ignore_paths
    stack,         \* os.walk: the directories still to be scanned
    root,          \* os.walk: the directory being listed
    dirs,          \* os.walk: its subdirectory names
    names,         \* find_paths: the names of root still to be yielded
    path,          \* main: the candidate past the ignore filter
    ridx,          \* main: the position of `for rule in rules`
    cache,         \* the lru_cache of MimeCondition.match
    report,        \* the lines printed by this run: [name, path, n]
    run,           \* the number of this run
    fs0,           \* history: the file system when this run began
    cand,          \* history: the candidate as find_paths yielded it
    yielded,       \* history: the paths find_paths has yielded in this run
    evald,         \* history: the rules matched against path: [rule, val]
    applied,       \* history: the rules applied to path
    lastApply,     \* history: the Rule.apply of the step just taken
    placed,        \* history: where Move/Copy have put an entry in this run
    mimeRet,       \* history: per (leaf, path), the values returned and reads
    napply,        \* history: the number of action.apply calls in this run
    prevReport     \* history: the lines printed by the run before

vars ==
    << fs, args, config, pc, err, rules, ignore_paths, stack, root, dirs, names,
       path, ridx, cache, report, run, fs0, cand, yielded, evald, applied,
       lastApply, placed, mimeRet, napply, prevReport >>

Empty == [x \in {} |-> FALSE]
NoApply == [rule |-> 0, orig |-> <<>>, steps |-> <<>>, path |-> <<>>, err |-> ""]

Init ==
    /\ fs \in Layouts
    /\ args \in [path : RootArgs, dry_run : BOOLEAN, recursive : BOOLEAN]
    /\ config \in Configs
    /\ pc = "start"
    /\ err = ""
    /\ rules = <<>>
    /\ ignore_paths = {}
    /\ stack = <<>>
    /\ root = <<>>
    /\ dirs = <<>>
    /\ names = <<>>
    /\ path = <<>>
    /\ ridx = 0
    /\ cache = Empty
    /\ report = <<>>
    /\ run = 1
    /\ fs0 = fs
    /\ cand = <<>>
    /\ yielded = <<>>
    /\ evald = <<>>
    /\ applied = <<>>
    /\ lastApply = NoApply
    /\ placed = {}
    /\ mimeRet = Empty
    /\ napply = 0
    /\ prevReport = <<>>

\* ----------------------------------------------------------------- os.walk
\* the order os.scandir lists the entries of a directory in
ScanOrder == <<"d", "f", "g", "o", "p", "s">>

\* the names of the entries of kind k in the directory at canonical c
Listing(f, c, k) ==
    SelectSeq(ScanOrder, LAMBDA n : (c \o <<n>>) \in DOMAIN f /\ f[c \o <<n>>].kind = k)

\* [join(top, dirname) for dirname in dirs]
RECURSIVE SubDirs(_, _)
SubDirs(top, ds) ==
    IF ds = <<>> THEN <<>> ELSE <<join(top, <<Head(ds)>>)>> \o SubDirs(top, Tail(ds))

\* ------------------------------------------------------------------- main
\* a loop body that applies the rule and goes on to the next rule
loop_body_no_break(dry_run, matched) ==
    [print |-> matched /\ dry_run,
     apply |-> matched /\ ~dry_run,
     brk   |-> FALSE]

\* a loop body that forgets the dry-run flag
loop_body_no_dry_run(dry_run, matched) ==
    [print |-> matched /\ dry_run,
     apply |-> matched,
     brk   |-> matched]

\* the body of `for rule in rules` for one rule, given whether it matched:
\* in a dry run a match is printed and the loop continues; otherwise the
\* rule is applied and the loop breaks
loop_body(dry_run, matched) ==
    [print |-> matched /\ dry_run,
     apply |-> matched /\ ~dry_run,
     brk   |-> matched /\ ~dry_run]

\* ignore_paths = {abspath(arguments.path)} + every rule.ignore_paths
main_ignore_paths(rootArg, rs) ==
    {abspath(rootArg)} \cup UNION {rs[i].ignore_paths : i \in 1..Len(rs)}

\* `path not in ignore_paths`
passes_filter(p, ignored) == p \notin ignored

\* the history of MimeCondition.match results, extended by a match's calls
RECURSIVE NoteMime(_, _, _)
NoteMime(h, calls, p) ==
    IF calls = <<>> THEN h
    ELSE LET c == Head(calls)
             k == <<c.id, p>>
             old == IF k \in DOMAIN h THEN h[k] ELSE [vals |-> {}, n |-> 0, reads |-> 0]
             new == [vals |-> old.vals \cup {c.val}, n |-> old.n + 1,
                     reads |-> old.reads + (IF c.read THEN 1 ELSE 0)]
         IN  NoteMime(IF c.tag = "mime" THEN (k :> new) @@ h ELSE h, Tail(calls), p)

\* where the steps of a Rule.apply put entries
Outputs(steps) ==
    {Resolve(steps[i].out) : i \in {j \in 1..Len(steps) : steps[j].out # None}}

History ==
    << fs0, cand, yielded, evald, applied, lastApply, placed, mimeRet, napply,
       prevReport >>

\* main, lines 343-345: the target is no directory
MainNoFolder ==
    /\ pc = "start"
    /\ ~isdir(fs, args.path)
    /\ pc' = "exit"
    /\ err' = "No such folder"
    /\ UNCHANGED << fs, args, config, rules, ignore_paths, stack, root, dirs, names,
                    path, ridx, cache, report, run, History >>

\* main, line 347: load_rules raises
MainLoadFails ==
    /\ pc = "start"
    /\ isdir(fs, args.path)
    /\ load_rules(config, 1).err # ""
    /\ pc' = "failed"
    /\ err' = load_rules(config, 1).err
    /\ UNCHANGED << fs, args, config, rules, ignore_paths, stack, root, dirs, names,
                    path, ridx, cache, report, run, History >>

\* main, lines 347-350: the rules, the generator and the ignore set
MainLoads ==
    /\ pc = "start"
    /\ isdir(fs, args.path)
    /\ load_rules(config, 1).err = ""
    /\ rules' = load_rules(config, 1).rules
    /\ ignore_paths' = main_ignore_paths(args.path, rules')
    /\ stack' = <<args.path>>
    /\ pc' = "walk"
    /\ UNCHANGED << fs, args, config, err, root, dirs, names, path, ridx, cache,
                    report, run, History >>

\* os.walk: nothing is left to scan, the generator ends
WalkEnds ==
    /\ pc = "walk"
    /\ stack = <<>>
    /\ pc' = "done"
    /\ lastApply' = NoApply
    /\ UNCHANGED << fs, args, config, err, rules, ignore_paths, stack, root, dirs,
                    names, path, ridx, cache, report, run, fs0, cand, yielded,
                    evald, applied, placed, mimeRet, napply, prevReport >>

\* os.walk: scandir fails (the directory is gone) and the error is dropped
WalkSkips ==
    /\ pc = "walk"
    /\ stack # <<>>
    /\ ~isdir(fs, Head(stack))
    /\ stack' = Tail(stack)
    /\ lastApply' = NoApply
    /\ UNCHANGED << fs, args, config, pc, err, rules, ignore_paths, root, dirs,
                    names, path, ridx, cache, report, run, fs0, cand, yielded,
                    evald, applied, placed, mimeRet, napply, prevReport >>

\* os.walk lists the next directory; find_paths chains directories,
\* file_names and [root]
WalkScans ==
    /\ pc = "walk"
    /\ stack # <<>>
    /\ isdir(fs, Head(stack))
    /\ LET top == Head(stack)
           ds == Listing(fs, Resolve(top), "dir")
           fl == Listing(fs, Resolve(top), "file")
       IN  /\ root' = top
           /\ dirs' = ds
           /\ names' = [i \in 1..Len(ds \o fl) |-> <<(ds \o fl)[i]>>] \o <<top>>
    /\ stack' = Tail(stack)
    /\ pc' = "yield"
    /\ lastApply' = NoApply
    /\ UNCHANGED << fs, args, config, err, rules, ignore_paths, path, ridx, cache,
                    report, run, fs0, cand, yielded, evald, applied, placed,
                    mimeRet, napply, prevReport >>

\* find_paths, lines 334-335: the names are exhausted; break, or let
\* os.walk descend
YieldExhausted ==
    /\ pc = "yield"
    /\ names = <<>>
    /\ IF args.recursive
       THEN /\ stack' = SubDirs(root, dirs) \o stack
            /\ pc' = "walk"
       ELSE /\ stack' = stack
            /\ pc' = "done"
    /\ lastApply' = NoApply
    /\ UNCHANGED << fs, args, config, err, rules, ignore_paths, root, dirs, names,
                    path, ridx, cache, report, run, fs0, cand, yielded, evald,
                    applied, placed, mimeRet, napply, prevReport >>

\* find_paths yields join(root, name) and main's filter drops it
YieldIgnored ==
    /\ pc = "yield"
    /\ names # <<>>
    /\ ~passes_filter(join(root, Head(names)), ignore_paths)
    /\ names' = Tail(names)
    /\ yielded' = Append(yielded, join(root, Head(names)))
    /\ lastApply' = NoApply
    /\ UNCHANGED << fs, args, config, pc, err, rules, ignore_paths, stack, root, dirs,
                    path, ridx, cache, report, run, fs0, cand, evald, applied,
                    placed, mimeRet, napply, prevReport >>

\* find_paths yields join(root, name) and it becomes main's candidate
YieldCandidate ==
    /\ pc = "yield"
    /\ names # <<>>
    /\ passes_filter(join(root, Head(names)), ignore_paths)
    /\ names' = Tail(names)
    /\ yielded' = Append(yielded, join(root, Head(names)))
    /\ path' = join(root, Head(names))
    /\ cand' = join(root, Head(names))
    /\ ridx' = 1
    /\ evald' = <<>>
    /\ applied' = <<>>
    /\ pc' = "match"
    /\ lastApply' = NoApply
    /\ UNCHANGED << fs, args, config, err, rules, ignore_paths, stack, root, dirs,
                    cache, report, run, fs0, placed, mimeRet, napply, prevReport >>

\* main: `for rule in rules` is exhausted for this candidate
RulesExhausted ==
    /\ pc = "match"
    /\ ridx > Len(rules)
    /\ pc' = "yield"
    /\ lastApply' = NoApply
    /\ UNCHANGED << fs, args, config, err, rules, ignore_paths, stack, root, dirs,
                    names, path, ridx, cache, report, run, fs0, cand, yielded,
                    evald, applied, placed, mimeRet, napply, prevReport >>

\* main, lines 352-361: one rule against the candidate
RuleStep ==
    /\ pc = "match"
    /\ ridx <= Len(rules)
    /\ \E m \in {match(rules[ridx].condition, path, fs, cache, <<>>)} :
       \E a \in {rule_apply(rules[ridx].actions, 1, fs, path, <<>>)} :
       \E todo \in {loop_body(args.dry_run, m.err = "" /\ m.val)} :
           /\ cache' = m.cache
           /\ mimeRet' = NoteMime(mimeRet, m.calls, path)
           /\ IF m.err # ""
              THEN /\ pc' = "failed"
                   /\ err' = m.err
                   /\ UNCHANGED << fs, path, ridx, report, evald, applied, placed, napply >>
                   /\ lastApply' = NoApply
              ELSE /\ evald' = Append(evald, [rule |-> ridx, val |-> m.val])
                   /\ report' = IF todo.print
                                THEN Append(report, [name |-> rules[ridx].name,
                                                     path |-> path,
                                                     n |-> Len(yielded), rule |-> ridx])
                                ELSE report
                   /\ IF todo.apply
                      THEN /\ fs' = a.fs
                           /\ path' = a.path
                           /\ applied' = Append(applied, ridx)
                           /\ lastApply' = [rule |-> ridx, orig |-> path, steps |-> a.steps,
                                            path |-> a.path, err |-> a.err]
                           /\ placed' = placed \cup Outputs(a.steps)
                           /\ napply' = napply + Len(a.steps)
                      ELSE /\ UNCHANGED << fs, path, applied, placed, napply >>
                           /\ lastApply' = NoApply
                   /\ IF todo.apply /\ a.err # ""
                      THEN /\ pc' = "failed"
                           /\ err' = a.err
                           /\ ridx' = ridx
                      ELSE /\ err' = err
                           /\ pc' = IF todo.brk THEN "yield" ELSE "match"
                           /\ ridx' = IF todo.brk THEN ridx ELSE ridx + 1
    /\ UNCHANGED << args, config, rules, ignore_paths, stack, root, dirs, names, run,
                    fs0, cand, yielded, prevReport >>

\* the program is started again with the same arguments: a new process
Rerun ==
    /\ pc \in {"done", "failed", "exit"}
    /\ run < MaxRuns
    /\ run' = run + 1
    /\ pc' = "start"
    /\ err' = ""
    /\ rules' = <<>>
    /\ ignore_paths' = {}
    /\ stack' = <<>>
    /\ root' = <<>>
    /\ dirs' = <<>>
    /\ names' = <<>>
    /\ path' = <<>>
    /\ ridx' = 0
    /\ cache' = Empty
    /\ report' = <<>>
    /\ prevReport' = report
    /\ fs0' = fs
    /\ cand' = <<>>
    /\ yielded' = <<>>
    /\ evald' = <<>>
    /\ applied' = <<>>
    /\ lastApply' = NoApply
    /\ placed' = {}
    /\ mimeRet' = Empty
    /\ napply' = 0
    /\ UNCHANGED << fs, args, config >>

Next ==
    \/ MainNoFolder
    \/ MainLoadFails
    \/ MainLoads
    \/ WalkEnds
    \/ WalkSkips
    \/ WalkScans
    \/ YieldExhausted
    \/ YieldIgnored
    \/ YieldCandidate
    \/ RulesExhausted
    \/ RuleStep
    \/ Rerun

Spec == Init /\ [][Next]_vars

\* ------------------------------------------------------------------ claims
Range(q) == {q[i] : i \in 1..Len(q)}
Terminal == {"done", "failed", "exit"}

\* every node of a condition tree
RECURSIVE SubNodes(_)
SubNodes(c) == {c} \cup UNION {SubNodes(c.kids[i]) : i \in 1..Len(c.kids)}

RuleNodes == UNION {SubNodes(rules[i].condition) : i \in 1..Len(rules)}

\* the directories main means to ignore: the target root and every
\* Move/Copy destination
IgnoredDirs ==
    {Resolve(args.path)} \cup
    {Resolve(d) : d \in UNION {rules[i].ignore_paths : i \in 1..Len(rules)}}

\* the rule loop has stopped at the first match of the current candidate:
\* the rules were tried in declaration order and only the last one tried
\* may have matched
StoppedAtFirstMatch ==
    \A i \in 1..Len(evald) :
        /\ evald[i].rule = i
        /\ i < Len(evald) => ~evald[i].val

\* C1: in a non-dry-run run the rules are tried in declaration order for
\* every candidate past the ignore filter, the action chain of the first
\* rule whose condition matches is the only one applied, and no rule
\* declared after it is evaluated for that candidate.
C1_FirstMatchWins ==
    ~args.dry_run =>
        /\ StoppedAtFirstMatch
        /\ Len(applied) <= 1
        /\ applied # <<>> =>
              evald # <<>> /\ applied[1] = Len(evald) /\ evald[Len(evald)].val
        /\ (evald # <<>> /\ evald[Len(evald)].val) => applied = <<Len(evald)>>

\* a first rule was applied to the first candidate although the second
\* rule's condition matches that candidate too
C1_Witness ==
    /\ ~args.dry_run
    /\ Len(rules) = 2
    /\ Len(yielded) = 1
    /\ applied = <<1>>
    /\ lastApply.rule = 1
    /\ lastApply.err = ""
    /\ match(rules[2].condition, cand, fs0, Empty, <<>>).val

\* C2: in a dry run the rule loop stops at the first match too: a
\* candidate is reported for the first matching rule only and no rule
\* declared after it is evaluated or reported for it.
C2_DryRunStopsAtFirstMatch ==
    args.dry_run =>
        /\ StoppedAtFirstMatch
        /\ \A i, j \in 1..Len(report) :
              report[i].n = report[j].n => i = j

\* the current candidate has been matched against a rule
Evaluated == evald # <<>>

\* C3: a path that is the target root or a Move/Copy destination
\* directory is never evaluated against any rule, whatever form the root
\* argument and the destinations are given in.
C3_IgnoredNeverEvaluated ==
    Evaluated => Resolve(cand) \notin IgnoredDirs

\* C8: in a non-dry-run run an entry that a Move or Copy action has put
\* into its destination directory is never afterwards a candidate that is
\* evaluated against a rule.
C8_OutputNeverEvaluated ==
    (~args.dry_run /\ Evaluated) => Resolve(cand) \notin placed

\* the entries of the directory at canonical c
ChildrenOf(f, c) == {a \in DOMAIN f : Len(a) = Len(c) + 1 /\ IsPrefix(c, a)}

\* C9: with recursive=false, find_paths yields exactly the root, each
\* immediate file and each immediate subdirectory of the root, each as a
\* path denoting that entry, and nothing nested deeper.
C9_NonRecursiveYield ==
    (pc = "done" /\ ~args.recursive) =>
        {Resolve(y) : y \in Range(yielded)} =
            {Resolve(args.path)} \cup ChildrenOf(fs0, Resolve(args.path))

\* the path Rule.apply should hand to the action after step i
Threaded(step) ==
    IF step.tag = "move" /\ step.ret # None THEN step.ret ELSE step.input

\* C4: Rule.apply threads the path through the action chain in order: the
\* first action gets the original path, a Move's new path is the input of
\* the next action, Copy and Delete leave it unchanged; a Move followed by
\* a Delete deletes the entry at the moved location; Rule.apply returns
\* the last path so produced.
C4_PathThreading ==
    LET steps == lastApply.steps
        acts == rules[lastApply.rule].actions
    IN  lastApply.rule # 0 =>
        /\ Len(steps) > 0 => steps[1].input = lastApply.orig
        /\ \A i \in 1..Len(steps) :
              /\ steps[i].tag = acts[i].tag
              /\ steps[i].tag \in {"copy", "delete"} => steps[i].ret = None
              /\ (steps[i].tag = "move" /\ steps[i].ret # None) =>
                    steps[i].ret =
                        join(acts[i].destination, shutil_basename(steps[i].input))
              /\ i < Len(steps) => steps[i + 1].input = Threaded(steps[i])
              /\ (i < Len(steps) /\ steps[i].tag = "move" /\ steps[i].ret # None
                    /\ steps[i + 1].tag = "delete" /\ steps[i + 1].err = "") =>
                    /\ ~exists(fs, steps[i].ret)
                    /\ ~exists(fs, lastApply.orig)
        /\ (lastApply.err = "" /\ Len(steps) > 0) =>
              /\ Len(steps) = Len(acts)
              /\ lastApply.path = Threaded(steps[Len(steps)])
              /\ path = lastApply.path

\* a Move followed by a Delete was applied and both succeeded
C4_Witness ==
    /\ lastApply.rule # 0
    /\ lastApply.err = ""
    /\ Len(lastApply.steps) = 2
    /\ lastApply.steps[1].tag = "move"
    /\ lastApply.steps[1].ret # None
    /\ lastApply.steps[1].ret # lastApply.orig
    /\ lastApply.steps[2].tag = "delete"
    /\ exists(fs0, lastApply.orig)

\* C5: in a dry run no action's apply is called, so the file system stays
\* as it was when the run began, and a repeated dry run over the same tree
\* reports the same matches.
C5_DryRunFrame ==
    args.dry_run =>
        /\ fs = fs0
        /\ napply = 0
        /\ placed = {}
        /\ (run > 1 /\ pc \in Terminal) => report = prevReport

\* a second dry run has ended after reporting matches
C5_Witness ==
    /\ args.dry_run
    /\ run = 2
    /\ pc = "done"
    /\ Len(report) >= 2
    /\ report = prevReport

\* a declaration carries a tag the registries do not know
RECURSIVE UnknownIn(_)
UnknownIn(data) ==
    \/ data.tag \notin CONDITIONS
    \/ \E i \in 1..Len(data.kids) : UnknownIn(data.kids[i])

UnknownInRule(data) ==
    \/ UnknownIn(data.condition)
    \/ \E i \in 1..Len(data.actions) : data.actions[i].tag \notin ACTION_TAGS

\* C6: if any rule declaration, at any position and any nesting depth,
\* carries an unknown condition or action tag, the run (of a target that
\* is a directory) fails with ConditionError or ActionError before any
\* candidate is yielded or evaluated and before any file-system change.
C6_UnknownTagAbortsStartup ==
    ((\E i \in 1..Len(config) : UnknownInRule(config[i])) /\ isdir(fs0, args.path)) =>
        /\ pc \in {"start", "failed"}
        /\ pc = "failed" => err \in {"ConditionError", "ActionError"}
        /\ rules = <<>>
        /\ yielded = <<>>
        /\ evald = <<>>
        /\ napply = 0
        /\ fs = fs0

\* the run failed on an unknown tag nested in the second rule's condition
\* tree, the first rule being sound
C6_Witness ==
    /\ pc = "failed"
    /\ err = "ConditionError"
    /\ Len(config) = 2
    /\ ~UnknownInRule(config[1])
    /\ config[2].condition.tag \in CONDITIONS
    /\ UnknownIn(config[2].condition)

\* child i of node n, matched on its own against the current candidate
Kid(n, i) == match(n.kids[i], path, fs, cache, <<>>)
KidTrue(n, i) == Kid(n, i).err = "" /\ Kid(n, i).val
KidFalse(n, i) == Kid(n, i).err = "" /\ ~Kid(n, i).val

\* the position of the child of n that the leaf invocation c belongs to
KidOf(n, c) == c.id[Len(n.id) + 1]

\* the leaf invocations of a match come child by child, left to right
LeftToRight(calls, n) ==
    \A a, b \in 1..Len(calls) : a < b => KidOf(n, calls[a]) <= KidOf(n, calls[b])

\* C7: an All node matches iff every child matches, an Any node iff at
\* least one does (also with no children); children are matched left to
\* right, All invokes no child after the first that returns false and Any
\* none after the first that returns true.
C7_AllAnyShortCircuit ==
    (pc = "match" /\ ridx <= Len(rules)) =>
        \A n \in {x \in RuleNodes : x.tag \in {"all", "any"}} :
            LET r == match(n, path, fs, cache, <<>>)
                K == 1..Len(n.kids)
                stop(i) == IF n.tag = "all" THEN KidFalse(n, i) ELSE KidTrue(n, i)
                pass(i) == IF n.tag = "all" THEN KidTrue(n, i) ELSE KidFalse(n, i)
            IN  /\ LeftToRight(r.calls, n)
                /\ (\A i \in K : pass(i)) => (r.err = "" /\ r.val = (n.tag = "all"))
                /\ \A i \in K :
                      (stop(i) /\ \A j \in 1..(i - 1) : pass(j)) =>
                          /\ r.err = ""
                          /\ r.val = (n.tag = "any")
                          /\ \A c \in Range(r.calls) : KidOf(n, c) <= i
                /\ r.err = "" =>
                      r.val = IF n.tag = "all" THEN \A i \in K : KidTrue(n, i)
                              ELSE \E i \in K : KidTrue(n, i)

\* an All node returns false and an Any node true for the candidate, each
\* without invoking a later child that would raise; an All and an Any
\* node without children are among the rules' nodes
C7_Witness ==
    /\ pc = "match"
    /\ ridx <= Len(rules)
    /\ \E n \in RuleNodes :
          /\ n.tag = "all"
          /\ \E i, j \in 1..Len(n.kids) : i < j /\ KidFalse(n, i) /\ Kid(n, j).err # ""
          /\ match(n, path, fs, cache, <<>>).err = ""
          /\ ~match(n, path, fs, cache, <<>>).val
    /\ \E n \in RuleNodes :
          /\ n.tag = "any"
          /\ \E i, j \in 1..Len(n.kids) : i < j /\ KidTrue(n, i) /\ Kid(n, j).err # ""
          /\ match(n, path, fs, cache, <<>>).err = ""
          /\ match(n, path, fs, cache, <<>>).val
    /\ \E n, k \in RuleNodes :
          /\ n.tag = "any" /\ n.kids = <<>>
          /\ ~match(n, path, fs, cache, <<>>).val
          /\ k.tag = "all" /\ k.kids = <<>>
          /\ match(k, path, fs, cache, <<>>).val

\* what MimeCondition.match would compute from the file now at p
FreshMime(c, p) == isfile(fs, p) /\ IsPrefix(c.arg, fs[Resolve(p)].mime)

\* C10: a Mime leaf's result is memoized by path for the whole run and
\* never invalidated or evicted: once match(p) has returned a value, every
\* later match(p) on that leaf returns it without reading the file again,
\* also after the file was modified, moved away or deleted.
C10_MimeMemoized ==
    \A k \in DOMAIN mimeRet :
        /\ Cardinality(mimeRet[k].vals) = 1
        /\ mimeRet[k].reads <= 1
        /\ k \in DOMAIN cache
        /\ cache[k] \in mimeRet[k].vals

\* a Mime leaf has returned its cached value for a path a second time
\* although the file has since been moved away
C10_Witness ==
    \E k \in DOMAIN mimeRet :
        /\ mimeRet[k].n >= 2
        /\ mimeRet[k].vals = {TRUE}
        /\ \E n \in RuleNodes : n.id = k[1] /\ ~FreshMime(n, k[2])

====
